---- MODULE Spec2Model ----
(***************************************************************************)
(* Model of public/validate_sql.py: the line scanner validate_sql_syntax   *)
(* and the command-line driver main.  Text is modelled character by        *)
(* character as sequences of one-character strings, so that split, strip,  *)
(* startswith, endswith and the substring test are computed as Python      *)
(* computes them.                                                          *)
(***************************************************************************)
EXTENDS Integers, Sequences, FiniteSets

VARIABLES fileState, file, sql_content, pc, lines, errors, warnings,
          out, ret, calls, prev

vars == <<fileState, file, sql_content, pc, lines, errors, warnings,
          out, ret, calls, prev>>

\* ------------------------------------------------------------------ bounds
\* Number of text pieces an input document is assembled from.
MaxPieces == 4
\* Number of calls a caller makes to validate_sql_syntax on one document.
MaxCalls == 2

\* --------------------------------------------------------------- literals
ADD_CONSTRAINT ==
    <<"A", "D", "D", " ", "C", "O", "N", "S", "T", "R", "A", "I", "N", "T", " ", "I", "F", " ", "N", "O", "T", " ", "E", "X", "I", "S", "T", "S">>
DO_OPEN ==
    <<"D", "O", " ", "$", "$">>
DO_CLOSE ==
    <<"$", "$", ";">>
CREATE_FUNCTION ==
    <<"C", "R", "E", "A", "T", "E", " ", "O", "R", " ", "R", "E", "P", "L", "A", "C", "E", " ", "F", "U", "N", "C", "T", "I", "O", "N">>
DOLLARS ==
    <<"$", "$">>
COMMENT ==
    <<"-", "-">>
NEWLINE == "\n"
SEMICOLON == ";"
\* Characters removed by str.strip() that a TLA+ string can denote.
Whitespace == {" ", "\t", "\n", "\r", "\f"}

\* Size of the look-ahead of the function check: lines[i-1:i+10].
Window == 10

MsgConstraint == "'ADD CONSTRAINT IF NOT EXISTS' is not valid PostgreSQL syntax"
MsgDoBlock == "DO block not properly closed"
MsgFunction == "Function may be missing proper delimiters"

\* ------------------------------------------------------ string operations
Min(a, b) == IF a < b THEN a ELSE b

\* str.startswith
StartsWith(s, p) == Len(s) >= Len(p) /\ SubSeq(s, 1, Len(p)) = p

\* str.endswith
EndsWith(s, p) == Len(s) >= Len(p) /\ SubSeq(s, Len(s) - Len(p) + 1, Len(s)) = p

\* the substring test  p in s
Contains(s, p) ==
    \/ p = <<>>
    \/ \E k \in 1..(Len(s) - Len(p) + 1) : s[k] = p[1] /\ SubSeq(s, k, k + Len(p) - 1) = p

RECURSIVE LStrip(_)
LStrip(s) == IF s # <<>> /\ Head(s) \in Whitespace THEN LStrip(Tail(s)) ELSE s

RECURSIVE RStrip(_)
RStrip(s) ==
    IF s # <<>> /\ s[Len(s)] \in Whitespace THEN RStrip(SubSeq(s, 1, Len(s) - 1)) ELSE s

\* str.strip
Strip(s) == RStrip(LStrip(s))

\* str.split(sep) for a one-character separator: always at least one piece.
FirstIndex(s, sep) ==
    CHOOSE k \in 1..Len(s) : s[k] = sep /\ \A m \in 1..(k - 1) : s[m] # sep

RECURSIVE Split(_, _)
Split(s, sep) ==
    IF \A k \in 1..Len(s) : s[k] # sep THEN <<s>>
    ELSE LET k == FirstIndex(s, sep)
         IN  <<SubSeq(s, 1, k - 1)>> \o Split(SubSeq(s, k + 1, Len(s)), sep)

\* ''.join(parts)
RECURSIVE Join(_)
Join(parts) == IF parts = <<>> THEN <<>> ELSE Head(parts) \o Join(Tail(parts))

\* the slice seq[a:b] for 0 <= a
Slice(seq, a, b) == SubSeq(seq, a + 1, Min(b, Len(seq)))

\* ------------------------------------------------------------- the checks
\* Variant: the message carries the 0-based index of the line.
Finding_ZeroBased(i, msg) == [line |-> i - 1, msg |-> msg]

\* f"Line {i}: {msg}"
Finding(i, msg) == [line |-> i, msg |-> msg]

\* Variant: only blank lines are skipped, comment lines are checked.
Skipped_BlankOnly(line) == line = <<>>

\* not line or line.startswith('--')
Skipped(line) == line = <<>> \/ StartsWith(line, COMMENT)

\* Variant: any line holding a dollar-quote tag opens a block.
DoBlockOpener_AnyDollars(line) == Contains(line, DOLLARS) /\ ~EndsWith(line, DO_CLOSE)

\* line.startswith('DO $$') and not line.endswith('$$;')
DoBlockOpener(line) == StartsWith(line, DO_OPEN) /\ ~EndsWith(line, DO_CLOSE)

\* Variant: the scan stops at a line that merely contains '$$'.
RECURSIVE BlockScanExhausted_AnyDollars(_, _)
BlockScanExhausted_AnyDollars(ls, j) ==
    IF j < Len(ls)
    THEN IF Contains(Strip(ls[j]), DOLLARS) THEN FALSE
         ELSE BlockScanExhausted_AnyDollars(ls, j + 1)
    ELSE TRUE

\* The while/else of the block check, entered with j = i: TRUE when the
\* loop condition j < len(lines) fails without a break, so that the else
\* branch runs.
RECURSIVE BlockScanExhausted(_, _)
BlockScanExhausted(ls, j) ==
    IF j < Len(ls)
    THEN IF EndsWith(Strip(ls[j]), DO_CLOSE) THEN FALSE
         ELSE BlockScanExhausted(ls, j + 1)
    ELSE TRUE

\* Variant: the look-ahead runs to the end of the document, lines[i-1:].
MissingDelimiters_NoWindow(ls, i) == ~Contains(Join(Slice(ls, i - 1, Len(ls))), DOLLARS)

\* '$$' not in ''.join(lines[i-1:i+10])
MissingDelimiters(ls, i) == ~Contains(Join(Slice(ls, i - 1, i + Window)), DOLLARS)

\* Variant: the block check runs before the constraint check.
CheckLine_BlockFirst(ls, i, acc) ==
    LET line == Strip(ls[i])
        e1 == IF DoBlockOpener(line) /\ BlockScanExhausted(ls, i)
              THEN Append(acc.errors, Finding(i, MsgDoBlock))
              ELSE acc.errors
        e2 == IF Contains(line, ADD_CONSTRAINT)
              THEN Append(e1, Finding(i, MsgConstraint))
              ELSE e1
        w  == IF Contains(line, CREATE_FUNCTION) /\ MissingDelimiters(ls, i)
              THEN Append(acc.warnings, Finding(i, MsgFunction))
              ELSE acc.warnings
    IN  IF Skipped(line) THEN acc ELSE [errors |-> e2, warnings |-> w]

\* One iteration of the for loop on line i; acc holds the two lists.
CheckLine(ls, i, acc) ==
    LET line == Strip(ls[i])
        e1 == IF Contains(line, ADD_CONSTRAINT)
              THEN Append(acc.errors, Finding(i, MsgConstraint))
              ELSE acc.errors
        e2 == IF DoBlockOpener(line) /\ BlockScanExhausted(ls, i)
              THEN Append(e1, Finding(i, MsgDoBlock))
              ELSE e1
        w  == IF Contains(line, CREATE_FUNCTION) /\ MissingDelimiters(ls, i)
              THEN Append(acc.warnings, Finding(i, MsgFunction))
              ELSE acc.warnings
    IN  IF Skipped(line) THEN acc ELSE [errors |-> e2, warnings |-> w]

\* for i, line in enumerate(lines, 1)
RECURSIVE ForLoop(_, _, _)
ForLoop(ls, i, acc) ==
    IF i > Len(ls) THEN acc ELSE ForLoop(ls, i + 1, CheckLine(ls, i, acc))

\* return 0 if not errors else 1
ExitStatus(errs) == IF errs = <<>> THEN 0 ELSE 1

\* ------------------------------------------------------------- the report
Printed(tag, n, f) == [tag |-> tag, n |-> n, finding |-> f]
NoFinding == Finding(0, "")

FindingLines(fs) == [k \in 1..Len(fs) |-> Printed("finding", 0, fs[k])]

ErrorSection(errs) ==
    IF errs # <<>>
    THEN <<Printed("ERRORS FOUND", Len(errs), NoFinding)>> \o FindingLines(errs)
    ELSE <<Printed("No syntax errors found", 0, NoFinding)>>

WarningSection(warns) ==
    IF warns # <<>>
    THEN <<Printed("WARNINGS", Len(warns), NoFinding)>> \o FindingLines(warns)
    ELSE <<Printed("No warnings", 0, NoFinding)>>

ReportText(content, errs, warns) ==
    <<Printed("SQL Syntax Validation Results:", 0, NoFinding),
      Printed("========================================", 0, NoFinding)>>
    \o ErrorSection(errs)
    \o WarningSection(warns)
    \o <<Printed("File contains SQL statements", Len(Split(content, SEMICOLON)), NoFinding),
         Printed(IF errs = <<>> THEN "Ready for deployment"
                 ELSE "Fix errors before deployment", 0, NoFinding)>>

NotFoundText == <<Printed("SQL file not found", 0, NoFinding)>>

\* ------------------------------------------------------------- the inputs
\* A run of Window line breaks, to place text beyond the look-ahead.
Gap == [k \in 1..Window |-> NEWLINE]

Pieces ==
    { DO_OPEN, DO_CLOSE, ADD_CONSTRAINT, CREATE_FUNCTION, COMMENT,
      <<"$">>, <<" ">>, <<SEMICOLON>>, <<NEWLINE>>, Gap }

RECURSIVE DocsUpTo(_)
DocsUpTo(n) ==
    IF n = 0 THEN {<<>>}
    ELSE LET shorter == DocsUpTo(n - 1)
         IN  shorter \cup {d \o p : d \in shorter, p \in Pieces}

Documents == DocsUpTo(MaxPieces)

FileStates == {"readable", "missing", "denied"}

\* ------------------------------------------------------------ the machine
Init ==
    /\ fileState \in FileStates
    /\ file \in Documents
    /\ (fileState # "readable" => file = <<>>)
    /\ sql_content = <<>>
    /\ pc = "open"
    /\ lines = <<>>
    /\ errors = <<>>
    /\ warnings = <<>>
    /\ out = <<>>
    /\ ret = <<>>
    /\ calls = 0
    /\ prev = <<>>

\* with open(...) as f: sql_content = f.read()
ReadFile ==
    /\ pc = "open"
    /\ fileState = "readable"
    /\ sql_content' = file
    /\ pc' = "call"
    /\ UNCHANGED <<fileState, file, lines, errors, warnings, out, ret, calls, prev>>

\* Variant: the handler prints the message but reports success.
FileNotFound_ReturnsZero ==
    /\ pc = "open"
    /\ fileState = "missing"
    /\ out' = out \o NotFoundText
    /\ ret' = <<0>>
    /\ pc' = "done"
    /\ UNCHANGED <<fileState, file, sql_content, lines, errors, warnings, calls, prev>>

\* except FileNotFoundError: print the message and return 1
FileNotFound ==
    /\ pc = "open"
    /\ fileState = "missing"
    /\ out' = out \o NotFoundText
    /\ ret' = <<1>>
    /\ pc' = "done"
    /\ UNCHANGED <<fileState, file, sql_content, lines, errors, warnings, calls, prev>>

\* open() raises an OSError other than FileNotFoundError (PermissionError):
\* no except clause matches, the exception leaves main, nothing is printed
\* and main returns no value.
OpenRaises ==
    /\ pc = "open"
    /\ fileState = "denied"
    /\ pc' = "raised"
    /\ UNCHANGED <<fileState, file, sql_content, lines, errors, warnings, out, ret,
                   calls, prev>>

\* Variant: the two lists live at module level and are not re-created.
Enter_SharedLists ==
    /\ pc = "call"
    /\ lines' = Split(sql_content, NEWLINE)
    /\ calls' = calls + 1
    /\ pc' = "loop"
    /\ UNCHANGED <<fileState, file, sql_content, errors, warnings, out, ret, prev>>

\* Entry of validate_sql_syntax: fresh lists, the text split into lines.
Enter ==
    /\ pc = "call"
    /\ errors' = <<>>
    /\ warnings' = <<>>
    /\ lines' = Split(sql_content, NEWLINE)
    /\ calls' = calls + 1
    /\ pc' = "loop"
    /\ UNCHANGED <<fileState, file, sql_content, out, ret, prev>>

\* The for loop over all lines, then return errors, warnings.
Loop ==
    /\ pc = "loop"
    /\ LET r == ForLoop(lines, 1, [errors |-> errors, warnings |-> warnings])
       IN  /\ errors' = r.errors
           /\ warnings' = r.warnings
    /\ pc' = "returned"
    /\ UNCHANGED <<fileState, file, sql_content, lines, out, ret, calls, prev>>

\* main prints the results.
Report ==
    /\ pc = "returned"
    /\ out' = out \o ReportText(sql_content, errors, warnings)
    /\ pc' = "exit"
    /\ UNCHANGED <<fileState, file, sql_content, lines, errors, warnings, ret, calls, prev>>

\* Variant: warnings count as failures too.
Exit_WarningsFail ==
    /\ pc = "exit"
    /\ ret' = <<ExitStatus(errors \o warnings)>>
    /\ pc' = "done"
    /\ UNCHANGED <<fileState, file, sql_content, lines, errors, warnings, out, calls, prev>>

\* main returns the exit status.
Exit ==
    /\ pc = "exit"
    /\ ret' = <<ExitStatus(errors)>>
    /\ pc' = "done"
    /\ UNCHANGED <<fileState, file, sql_content, lines, errors, warnings, out, calls, prev>>

Next == ReadFile \/ FileNotFound \/ OpenRaises \/ Enter \/ Loop \/ Report \/ Exit

Spec == Init /\ [][Next]_vars

\* A caller that imports the module and calls validate_sql_syntax again on
\* the same text, keeping the previous result for comparison.
CallAgain ==
    /\ pc = "returned"
    /\ calls < MaxCalls
    /\ prev' = <<errors, warnings>>
    /\ pc' = "call"
    /\ UNCHANGED <<fileState, file, sql_content, lines, errors, warnings, out, ret, calls>>

InitRepeat ==
    /\ fileState = "readable"
    /\ file \in Documents
    /\ sql_content = file
    /\ pc = "call"
    /\ lines = <<>>
    /\ errors = <<>>
    /\ warnings = <<>>
    /\ out = <<>>
    /\ ret = <<>>
    /\ calls = 0
    /\ prev = <<>>

NextRepeat == Enter \/ Loop \/ CallAgain

SpecRepeat == InitRepeat /\ [][NextRepeat]_vars

\* ------------------------------------------------------------ properties
\* The line structure of a document, peeled off from its end at the last
\* line break rather than computed through Split.
HasNewline(doc) == \E k \in 1..Len(doc) : doc[k] = NEWLINE

LastNewline(doc) ==
    CHOOSE k \in 1..Len(doc) :
        doc[k] = NEWLINE /\ \A m \in (k + 1)..Len(doc) : doc[m] # NEWLINE

RECURSIVE LinesOf(_)
LinesOf(doc) ==
    IF ~HasNewline(doc) THEN <<doc>>
    ELSE LET k == LastNewline(doc)
         IN  Append(LinesOf(SubSeq(doc, 1, k - 1)), SubSeq(doc, k + 1, Len(doc)))

DocLines == LinesOf(sql_content)

Stripped(L, n) == Strip(L[n])

\* the line is neither blank nor a -- comment
Checked(L, n) == Stripped(L, n) # <<>> /\ ~StartsWith(Stripped(L, n), COMMENT)

Opens(L, n) == StartsWith(Stripped(L, n), DO_OPEN) /\ ~EndsWith(Stripped(L, n), DO_CLOSE)

ClosedFrom(L, n) == \E k \in n..Len(L) : EndsWith(Stripped(L, k), DO_CLOSE)

Count(fs, f) == Cardinality({k \in 1..Len(fs) : fs[k] = f})

ConstraintError(n) == [line |-> n, msg |-> MsgConstraint]
DoBlockError(n) == [line |-> n, msg |-> MsgDoBlock]
FunctionWarning(n) == [line |-> n, msg |-> MsgFunction]

\* validate_sql_syntax has just returned its two lists
Validated == calls >= 1 /\ pc = "returned"

NonDecreasing(fs) == \A k \in 1..(Len(fs) - 1) : fs[k].line <= fs[k + 1].line

\* C1: an opener line i (starts with DO $$, does not end with $$;) for which
\* some line from i up to and including the last line of the document ends
\* with $$; gets no 'DO block not properly closed' error.
C1_ClosedBlockNoError ==
    Validated =>
        LET L == DocLines
        IN  \A i \in 1..Len(L) :
                (Opens(L, i) /\ ClosedFrom(L, i)) => Count(errors, DoBlockError(i)) = 0

\* C2: an opener line i with no line from i to the end of the document
\* ending with $$; gets exactly one 'DO block not properly closed' error,
\* and that error carries the line number i.
C2_UnclosedBlockOneError ==
    Validated =>
        LET L == DocLines
        IN  \A i \in 1..Len(L) :
                (Checked(L, i) /\ Opens(L, i) /\ ~ClosedFrom(L, i))
                    => Count(errors, DoBlockError(i)) = 1

\* C2 witness: an unclosed opener that is not the last line was reported at
\* its own line number.
C2_Witness ==
    /\ Validated
    /\ LET L == DocLines
       IN  \E i \in 1..Len(L) :
               /\ i < Len(L)
               /\ Checked(L, i) /\ Opens(L, i) /\ ~ClosedFrom(L, i)
               /\ Count(errors, DoBlockError(i)) = 1

\* C3: a line gets the ADD CONSTRAINT IF NOT EXISTS error exactly once if
\* and only if it is non-blank, is not a -- comment and contains the
\* substring; blank and comment lines never get it.
C3_ConstraintErrorIff ==
    Validated =>
        LET L == DocLines
        IN  \A n \in 1..Len(L) :
                Count(errors, ConstraintError(n)) =
                    IF Checked(L, n) /\ Contains(Stripped(L, n), ADD_CONSTRAINT) THEN 1 ELSE 0

\* C3 witness: one comment line containing the substring went unreported
\* and one checked line containing it was reported once.
C3_Witness ==
    /\ Validated
    /\ LET L == DocLines
       IN  /\ \E n \in 1..Len(L) :
                  /\ StartsWith(Stripped(L, n), COMMENT)
                  /\ Contains(L[n], ADD_CONSTRAINT)
                  /\ Count(errors, ConstraintError(n)) = 0
           /\ \E n \in 1..Len(L) :
                  /\ Checked(L, n)
                  /\ Contains(L[n], ADD_CONSTRAINT)
                  /\ Count(errors, ConstraintError(n)) = 1

\* the concatenation of lines a..b of the document
ConcatLines(L, a, b) == Join(SubSeq(L, a, b))

InWindow(L, n) == Contains(ConcatLines(L, n, Min(n + Window, Len(L))), DOLLARS)

\* C4: a checked line i containing CREATE OR REPLACE FUNCTION gets exactly
\* one warning if and only if $$ does not occur in the concatenation of
\* lines i..min(i+10, last); lines without the trigger get no warning.
C4_FunctionWarningIff ==
    Validated =>
        LET L == DocLines
        IN  \A n \in 1..Len(L) :
                IF Contains(L[n], CREATE_FUNCTION)
                THEN Checked(L, n) =>
                         Count(warnings, FunctionWarning(n)) = IF InWindow(L, n) THEN 0 ELSE 1
                ELSE \A k \in 1..Len(warnings) : warnings[k].line # n

\* C4 witness: a function line was warned about although $$ appears on a
\* line beyond its window.
C4_Witness ==
    /\ Validated
    /\ LET L == DocLines
       IN  \E n \in 1..Len(L) :
               /\ Checked(L, n)
               /\ Contains(L[n], CREATE_FUNCTION)
               /\ \E m \in (n + Window + 1)..Len(L) : Contains(L[m], DOLLARS)
               /\ Count(warnings, FunctionWarning(n)) = 1

\* the line at position n is one that raises the finding with message msg
Triggers(L, n, msg) ==
    /\ n \in 1..Len(L)
    /\ Checked(L, n)
    /\ CASE msg = MsgConstraint -> Contains(Stripped(L, n), ADD_CONSTRAINT)
         [] msg = MsgDoBlock -> Opens(L, n)
         [] msg = MsgFunction -> Contains(Stripped(L, n), CREATE_FUNCTION)
         [] OTHER -> FALSE

\* C5: the line number of every error and every warning is the 1-based
\* position, among all lines of the document, of the line that triggered it.
C5_LineNumbers ==
    Validated =>
        LET L == DocLines
        IN  /\ \A k \in 1..Len(errors) :
                   /\ errors[k].msg \in {MsgConstraint, MsgDoBlock}
                   /\ Triggers(L, errors[k].line, errors[k].msg)
            /\ \A k \in 1..Len(warnings) :
                   /\ warnings[k].msg = MsgFunction
                   /\ Triggers(L, warnings[k].line, warnings[k].msg)

\* C5 witness: an error and a warning were reported for lines that follow a
\* skipped (blank or comment) line.
C5_Witness ==
    /\ Validated
    /\ LET L == DocLines
       IN  /\ \E k \in 1..Len(errors) :
                  \E m \in 1..(errors[k].line - 1) : ~Checked(L, m)
           /\ \E k \in 1..Len(warnings) :
                  \E m \in 1..(warnings[k].line - 1) : ~Checked(L, m)

NoTrigger(L) ==
    \A n \in 1..Len(L) :
        /\ ~Contains(L[n], ADD_CONSTRAINT)
        /\ ~StartsWith(Stripped(L, n), DO_OPEN)
        /\ ~Contains(L[n], CREATE_FUNCTION)

\* C6: a document with none of the three trigger patterns yields no errors
\* and no warnings.
C6_NoTriggerNoFinding ==
    (Validated /\ NoTrigger(DocLines)) => (errors = <<>> /\ warnings = <<>>)

\* C6 witness: a document without triggers, with a checked line holding $$,
\* was validated.
C6_Witness ==
    /\ Validated
    /\ NoTrigger(DocLines)
    /\ \E n \in 1..Len(DocLines) : Checked(DocLines, n) /\ Contains(DocLines[n], DOLLARS)
    /\ errors = <<>> /\ warnings = <<>>

\* C7: after a successful read main returns 0 if and only if errors is
\* empty and 1 otherwise, whatever the number of warnings.
C7_ExitStatus ==
    (pc = "done" /\ fileState = "readable") =>
        /\ ret \in {<<0>>, <<1>>}
        /\ (ret = <<0>> <=> errors = <<>>)

\* C7 witness: a run with a warning and no error returned 0.
C7_Witness ==
    pc = "done" /\ fileState = "readable" /\ warnings # <<>> /\ errors = <<>> /\ ret = <<0>>

\* main has ended, by returning or by an exception leaving it
Ended == pc \in {"done", "raised"}

CaughtAndReported ==
    /\ pc = "done"
    /\ out = <<[tag |-> "SQL file not found", n |-> 0, finding |-> [line |-> 0, msg |-> ""]]>>
    /\ calls = 0
    /\ ret = <<1>>

\* C8 as stated: whenever the file cannot be read (missing or not
\* accessible) main catches the failure, prints one error line, validates
\* nothing and returns 1.
C8_AnyReadFailureCaught ==
    (Ended /\ fileState # "readable") => CaughtAndReported

\* C8 amended: when the file does not exist main catches the failure,
\* prints one error line, validates nothing, prints no results section and
\* returns 1.
C8_MissingFileCaught ==
    (Ended /\ fileState = "missing") => CaughtAndReported

\* C8 witness: the run on a missing file has ended.
C8_Witness ==
    fileState = "missing" /\ Ended /\ CaughtAndReported

\* C9: a second call of validate_sql_syntax on the same text returns the
\* same errors and warnings in the same order as the call before it.
C9_RepeatedCallSameResult ==
    (pc = "returned" /\ calls >= 2) => <<errors, warnings>> = prev

\* C9 witness: a second call has returned with at least one error and one
\* warning.
C9_Witness ==
    pc = "returned" /\ calls >= 2 /\ errors # <<>> /\ warnings # <<>>

BothErrors(L, n) ==
    /\ Checked(L, n)
    /\ Contains(Stripped(L, n), ADD_CONSTRAINT)
    /\ Opens(L, n) /\ ~ClosedFrom(L, n)

Adjacent(n) ==
    \E k \in 1..(Len(errors) - 1) :
        errors[k] = ConstraintError(n) /\ errors[k + 1] = DoBlockError(n)

\* C10: line numbers are non-decreasing in errors and in warnings, and a
\* line that triggers both the constraint error and the unclosed-block
\* error has both, the constraint error immediately before the other.
C10_DetectionOrder ==
    Validated =>
        /\ NonDecreasing(errors)
        /\ NonDecreasing(warnings)
        /\ LET L == DocLines
           IN  \A n \in 1..Len(L) :
                   /\ BothErrors(L, n) => Adjacent(n)
                   /\ (Count(errors, ConstraintError(n)) > 0
                         /\ Count(errors, DoBlockError(n)) > 0) => Adjacent(n)

\* C10 witness: a line after the first triggered both errors, and an
\* earlier line was reported too.
C10_Witness ==
    /\ Validated
    /\ LET L == DocLines
       IN  \E n \in 2..Len(L) : BothErrors(L, n) /\ Adjacent(n)
    /\ Len(errors) >= 3

====
